---- MODULE Spec2Model ----
(***************************************************************************)
(* Backend-process supervisor of the desktop host                          *)
(* (src/frontend/src-tauri/src/lib.rs): the binary locator, the two launch *)
(* procedures, the setup hook that stores the child handle in the          *)
(* Mutex<Option<Child>> managed state, and the exit-event handler that     *)
(* kills and waits for the child.                                          *)
(*                                                                         *)
(* Paths are sequences of components (<<>> is the filesystem root);        *)
(* Option<T> is a set with at most one element ({} is None).               *)
(***************************************************************************)
EXTENDS Naturals, Sequences, FiniteSets, TLC

\* ------------------------------------------------------------------ bounds

\* Largest number of files on the modelled filesystem.
MaxFiles == 2

\* Largest number of nested directories of a listed directory tree.
MaxNest == 5

\* Largest number of symbolic links in a listed directory tree.
MaxLinks == 1

\* ------------------------------------------------------------------ paths

\* std::path::Path::join
Join(p, c) == Append(p, c)

\* std::path::Path::parent: None for the root
Parent(p) == IF Len(p) = 0 THEN {} ELSE {SubSeq(p, 1, Len(p) - 1)}

\* Option::and_then(Path::parent), the `.parent()?` chain
ParentOpt(o) == UNION {Parent(p) : p \in o}

IsPrefix(p, q) ==
    /\ Len(p) <= Len(q)
    /\ SubSeq(q, 1, Len(p)) = p

\* Path::exists on a filesystem given by its set of regular files: a path
\* exists when it is a file or a directory on the way to one.
Exists(fs, p) == p = << >> \/ \E f \in fs : IsPrefix(p, f)

\* a path that can be executed: a regular file, not a directory
IsFile(fs, p) == p \in fs

\* cfg!(target_os = "windows") selects the executable name
BinaryName(win) == IF win THEN "nexa-backend.exe" ELSE "nexa-backend"

\* ---------------------------------------------------------------- locator

\* the three layouts pushed for the resource directory
ResourceCandidates(dir, name) ==
    << Join(Join(Join(dir, "binaries"), "nexa-backend"), name),
       Join(Join(dir, "nexa-backend"), name),
       Join(dir, name) >>

\* the probes one level above the executable's directory
ParentDirCandidates(parent_dir, name) ==
    << Join(Join(Join(Join(parent_dir, "resources"), "binaries"), "nexa-backend"), name),
       Join(Join(Join(parent_dir, "resources"), "nexa-backend"), name),
       Join(Join(Join(parent_dir, "binaries"), "nexa-backend"), name) >>

\* the candidates pushed for the executable's directory
ExeDirCandidates(exe_dir, name) ==
    << Join(Join(Join(exe_dir, "binaries"), "nexa-backend"), name),
       Join(Join(exe_dir, "nexa-backend"), name),
       Join(exe_dir, name),
       Join(Join(Join(Join(exe_dir, "resources"), "binaries"), "nexa-backend"), name),
       Join(Join(Join(exe_dir, "resources"), "nexa-backend"), name),
       Join(Join(Join(Join(Join(exe_dir, "_up_"), "resources"), "binaries"),
                 "nexa-backend"), name) >>
    \o (IF Parent(exe_dir) = {} THEN << >>
        ELSE ParentDirCandidates(CHOOSE d \in Parent(exe_dir) : TRUE, name))

\* the two layouts pushed for the app-local-data directory
AppDataCandidates(dir, name) ==
    << Join(Join(Join(dir, "binaries"), "nexa-backend"), name),
       Join(Join(dir, "nexa-backend"), name) >>

\* the candidates of an optional anchor: none when the anchor is unavailable
OfAnchor(anchor, Cands(_, _), name) ==
    IF anchor = {} THEN << >> ELSE Cands(CHOOSE d \in anchor : TRUE, name)

\* a candidate list that ends at the first unavailable anchor
SearchPathsStopAtMissing(res, exe, data, win) ==
    IF res = {} THEN << >>
    ELSE OfAnchor(res, ResourceCandidates, BinaryName(win))
         \o (IF ParentOpt(exe) = {} THEN << >>
             ELSE OfAnchor(ParentOpt(exe), ExeDirCandidates, BinaryName(win))
                  \o OfAnchor(data, AppDataCandidates, BinaryName(win)))

\* a candidate list with the app-local-data directory ahead of the
\* executable's directory
SearchPathsDataBeforeExe(res, exe, data, win) ==
    OfAnchor(res, ResourceCandidates, BinaryName(win))
    \o OfAnchor(data, AppDataCandidates, BinaryName(win))
    \o OfAnchor(ParentOpt(exe), ExeDirCandidates, BinaryName(win))

\* search_paths as find_backend_binary builds it
SearchPaths(res, exe, data, win) ==
    OfAnchor(res, ResourceCandidates, BinaryName(win))
    \o OfAnchor(ParentOpt(exe), ExeDirCandidates, BinaryName(win))
    \o OfAnchor(data, AppDataCandidates, BinaryName(win))

\* the scan loop `for path in &search_paths`, from index i on
RECURSIVE ScanFrom(_, _, _)
ScanFrom(fs, paths, i) ==
    IF i > Len(paths) THEN {}
    ELSE IF Exists(fs, paths[i]) THEN {paths[i]}
    ELSE ScanFrom(fs, paths, i + 1)

\* a scan without the early return: the last existing candidate wins
ScanKeepsLast(fs, paths) ==
    LET existing == { i \in 1..Len(paths) : Exists(fs, paths[i]) }
    IN  IF existing = {} THEN {}
        ELSE {paths[CHOOSE i \in existing : \A j \in existing : j <= i]}

\* find_backend_binary's result
find_backend_binary(fs, paths) == ScanFrom(fs, paths, 1)

\* ----------------------------------------------------------------- launch

\* std::process::Command as start_backend_bundled builds it: None when the
\* binary path has no parent (`binary_path.parent()?`); on Windows the
\* child gets no console window
BundledCommand(binary_path, win) ==
    { [ mode    |-> "bundled",
        program |-> binary_path,
        args    |-> << >>,
        env     |-> { <<"PORT", "8000">>, <<"HOST", "127.0.0.1">> },
        flags   |-> IF win THEN {"CREATE_NO_WINDOW"} ELSE {},
        cwd     |-> working_dir ] : working_dir \in Parent(binary_path) }

\* a parent walk that stops one directory short of the project root
ProjectRootFourParents(exe) == ParentOpt(ParentOpt(ParentOpt(ParentOpt(exe))))

\* project_root of start_backend_dev: five parents above the executable path
ProjectRoot(exe) == ParentOpt(ParentOpt(ParentOpt(ParentOpt(ParentOpt(exe)))))

BackendDir(project_root) == Join(project_root, "backend")

VenvPython(backend_dir, win) ==
    IF win THEN Join(Join(Join(backend_dir, ".venv"), "Scripts"), "python.exe")
    ELSE Join(Join(Join(backend_dir, ".venv"), "bin"), "python")

\* std::process::Command as start_backend_dev builds it: None when the
\* executable path is unknown, the parent walk runs out, or the backend
\* directory or the interpreter does not exist
DevCommand(fs, exe, win) ==
    { [ mode    |-> "dev",
        program |-> VenvPython(BackendDir(root), win),
        args    |-> <<"-m", "uvicorn", "main:app", "--host", "127.0.0.1",
                      "--port", "8000">>,
        env     |-> {},
        flags   |-> {},
        cwd     |-> BackendDir(root) ] :
      root \in { r \in ProjectRoot(exe) :
                   /\ Exists(fs, BackendDir(r))
                   /\ Exists(fs, VenvPython(BackendDir(r), win)) } }

\* Command::spawn can succeed only on a regular file; the operating system
\* may refuse any spawn (permissions, corrupt binary)
SpawnResults(fs, cmd) ==
    IF IsFile(fs, cmd.program) THEN {"ok", "err"} ELSE {"err"}

\* ------------------------------------------------------------------ state

VARIABLES
    target_windows, \* cfg!(target_os = "windows")
    resource_dir,   \* app_handle.path().resource_dir(), an Option
    exe_path,       \* std::env::current_exe(), an Option
    app_data,       \* app_handle.path().app_local_data_dir(), an Option
    files,          \* the regular files of the filesystem
    pcSetup,        \* position of the setup hook
    pcExit,         \* position of the run-event callback
    search_paths,   \* find_backend_binary's candidate list
    binary_path,    \* find_backend_binary's result, an Option
    backend,        \* the setup hook's local `backend`, an Option of a child id
    slot,           \* BackendProcess.0: the Option<Child> inside the mutex
    lock,           \* holder of the mutex: "none", "setup" or "exit"
    procs,          \* the child processes spawned so far, by child id
    attempted,      \* the launch procedures called so far
    calls,          \* the kill and wait calls made so far, with their results
    tree,           \* the directory tree that list_dir_recursive is called on
    stack,          \* the activations of list_dir_recursive, innermost last
    reads           \* the read_dir calls made so far: directory and depth

vars == << target_windows, resource_dir, exe_path, app_data, files, pcSetup,
           pcExit, search_paths, binary_path, backend, slot, lock, procs,
           attempted, calls, tree, stack, reads >>

\* the state of the diagnostic listing
listVars == << tree, stack, reads >>

\* the state of the supervisor
supervisorVars == << target_windows, resource_dir, exe_path, app_data, files,
                     pcSetup, pcExit, search_paths, binary_path, backend, slot,
                     lock, procs, attempted, calls >>

envVars == << target_windows, resource_dir, exe_path, app_data, files >>

\* ------------------------------------------------------------ environment

Range(seq) == { seq[i] : i \in 1..Len(seq) }

\* the subsets of S with at most k elements
RECURSIVE SubsetsUpTo(_, _)
SubsetsUpTo(S, k) ==
    IF k = 0 THEN {{}}
    ELSE LET smaller == SubsetsUpTo(S, k - 1)
         IN  smaller \cup { T \cup {x} : T \in smaller, x \in S }

\* no regular file lies below another regular file
PrefixFree(fs) == \A f, g \in fs : IsPrefix(f, g) => f = g

\* what the host framework may report as the resource directory
ResourceDirChoices == { {}, {<<"opt", "nexa", "resources">>} }

\* what current_exe may report: an installed executable, one in a cargo
\* target directory of the development tree, one directly under the root
ExePathChoices ==
    { {},
      {<<"opt", "nexa", "bin", "nexa">>},
      {<<"proj", "frontend", "src-tauri", "target", "debug", "nexa">>},
      {<<"nexa">>} }

\* what the host framework may report as the app-local-data directory
AppDataChoices == { {}, {<<"home", "data">>} }

\* the files a filesystem is drawn from: every candidate of the locator, a
\* file that makes a "nexa-backend" directory exist without the binary in
\* it, the binary directly under each anchor, and the development tree's
\* backend with an interpreter, also one level too deep in the tree
FileChoices(res, exe, data, win) ==
    Range(SearchPaths(res, exe, data, win))
    \cup { Join(Join(d, "nexa-backend"), "config.json") : d \in res \cup ParentOpt(exe) }
    \cup { Join(d, BinaryName(win)) : d \in res \cup ParentOpt(exe) \cup data }
    \cup { <<"proj", "backend", "main.py">>,
           VenvPython(<<"proj", "backend">>, win),
           VenvPython(<<"proj", "frontend", "backend">>, win) }

TypeOK ==
    /\ target_windows \in BOOLEAN
    /\ resource_dir \in ResourceDirChoices
    /\ exe_path \in ExePathChoices
    /\ app_data \in AppDataChoices
    /\ Cardinality(files) <= MaxFiles
    /\ PrefixFree(files)
    /\ pcSetup \in {"plugin", "locate", "launch", "lock", "store", "unlock",
                    "returned", "failed"}
    /\ pcExit \in {"running", "lock", "stop", "wait", "unlock", "returned"}
    /\ Cardinality(binary_path) <= 1
    /\ Cardinality(backend) <= 1
    /\ Cardinality(slot) <= 1
    /\ lock \in {"none", "setup", "exit"}
    /\ attempted \subseteq {"bundled", "dev"}

\* the state after `.manage(BackendProcess(Mutex::new(None)))`, before the
\* host calls the setup hook
Init ==
    /\ target_windows \in BOOLEAN
    /\ resource_dir \in ResourceDirChoices
    /\ exe_path \in ExePathChoices
    /\ app_data \in AppDataChoices
    /\ files \in { fs \in SubsetsUpTo(FileChoices(resource_dir, exe_path, app_data,
                                                  target_windows), MaxFiles) :
                     PrefixFree(fs) }
    /\ pcSetup = "plugin"
    /\ pcExit = "running"
    /\ search_paths = << >>
    /\ binary_path = {}
    /\ backend = {}
    /\ slot = {}
    /\ lock = "none"
    /\ procs = << >>
    /\ attempted = {}
    /\ calls = << >>
    /\ tree = [dirs |-> 0, links |-> {}, file |-> FALSE, locked |-> 0]
    /\ stack = << >>
    /\ reads = {}

\* ------------------------------------------------------------- setup hook

\* `app.handle().plugin(...)?`: registering the log plugin fails and the
\* setup hook returns the error before anything is launched
SetupPluginErr ==
    /\ pcSetup = "plugin"
    /\ pcSetup' = "failed"
    /\ UNCHANGED << envVars, pcExit, search_paths, binary_path, backend, slot,
                    lock, procs, attempted, calls >>

SetupPluginOk ==
    /\ pcSetup = "plugin"
    /\ pcSetup' = "locate"
    /\ UNCHANGED << envVars, pcExit, search_paths, binary_path, backend, slot,
                    lock, procs, attempted, calls >>

\* find_backend_binary(app.handle())
SetupLocate ==
    /\ pcSetup = "locate"
    /\ search_paths' = SearchPaths(resource_dir, exe_path, app_data, target_windows)
    /\ binary_path' = find_backend_binary(files, search_paths')
    /\ pcSetup' = "launch"
    /\ UNCHANGED << envVars, pcExit, backend, slot, lock, procs, attempted, calls >>

\* Command::spawn of cmd (an Option) with the given result: the child's id
\* when a process was created, None otherwise
Spawned(cmd, result) ==
    IF cmd # {} /\ result = "ok" THEN {Len(procs) + 1} ELSE {}

\* the process table after Command::spawn of cmd with the given result
ProcsAfterSpawn(cmd, result) ==
    IF cmd # {} /\ result = "ok"
    THEN Append(procs, [cmd |-> CHOOSE c \in cmd : TRUE, status |-> "running"])
    ELSE procs

\* the results the operating system can give for spawning cmd (an Option);
\* no spawn is made for None
SpawnResultsOpt(cmd) ==
    IF cmd = {} THEN {"none"}
    ELSE SpawnResults(files, CHOOSE c \in cmd : TRUE)

\* start_backend_bundled(&binary_path)
start_backend_bundled(path) ==
    \E result \in SpawnResultsOpt(BundledCommand(path, target_windows)) :
        /\ backend' = Spawned(BundledCommand(path, target_windows), result)
        /\ procs' = ProcsAfterSpawn(BundledCommand(path, target_windows), result)
        /\ attempted' = attempted \cup {"bundled"}

\* start_backend_dev()
start_backend_dev ==
    \E result \in SpawnResultsOpt(DevCommand(files, exe_path, target_windows)) :
        /\ backend' = Spawned(DevCommand(files, exe_path, target_windows), result)
        /\ procs' = ProcsAfterSpawn(DevCommand(files, exe_path, target_windows), result)
        /\ attempted' = attempted \cup {"dev"}

\* `if let Some(binary_path) = find_backend_binary(..)`: the bundled branch
SetupLaunchBundled ==
    /\ pcSetup = "launch"
    /\ binary_path # {}
    /\ start_backend_bundled(CHOOSE p \in binary_path : TRUE)
    /\ pcSetup' = "lock"
    /\ UNCHANGED << envVars, pcExit, search_paths, binary_path, slot, lock, calls >>

\* a dev fallback whose failure is returned from the setup hook as an error
SetupLaunchDevPropagates ==
    /\ pcSetup = "launch"
    /\ binary_path = {}
    /\ start_backend_dev
    /\ pcSetup' = IF backend' = {} THEN "failed" ELSE "lock"
    /\ UNCHANGED << envVars, pcExit, search_paths, binary_path, slot, lock, calls >>

\* a dev fallback that does not depend on the locator's result
SetupLaunchDevUnconditional ==
    /\ pcSetup = "launch"
    /\ start_backend_dev
    /\ pcSetup' = "lock"
    /\ UNCHANGED << envVars, pcExit, search_paths, binary_path, slot, lock, calls >>

\* the else branch: "No bundled backend found, trying dev mode..."
SetupLaunchDev ==
    /\ pcSetup = "launch"
    /\ binary_path = {}
    /\ start_backend_dev
    /\ pcSetup' = "lock"
    /\ UNCHANGED << envVars, pcExit, search_paths, binary_path, slot, lock, calls >>

\* a lock that is never taken
MutexLockNotTaken(t) == lock' = lock

\* Mutex::lock by thread t: blocks while the mutex is held
MutexLock(t) ==
    /\ lock = "none"
    /\ lock' = t

\* the MutexGuard of thread t is dropped
MutexUnlock(t) ==
    /\ lock = t
    /\ lock' = "none"

\* `state.0.lock().unwrap()` in the setup hook
SetupLock ==
    /\ pcSetup = "lock"
    /\ MutexLock("setup")
    /\ pcSetup' = "store"
    /\ UNCHANGED << envVars, pcExit, search_paths, binary_path, backend, slot,
                    procs, attempted, calls >>

\* the store leaves the slot as it was and the handle is dropped
SetupStoreDropsHandle ==
    /\ pcSetup = "store"
    /\ slot' = slot
    /\ pcSetup' = "unlock"
    /\ UNCHANGED << envVars, pcExit, search_paths, binary_path, backend, lock,
                    procs, attempted, calls >>

\* `*guard = backend`
SetupStore ==
    /\ pcSetup = "store"
    /\ slot' = backend
    /\ pcSetup' = "unlock"
    /\ UNCHANGED << envVars, pcExit, search_paths, binary_path, backend, lock,
                    procs, attempted, calls >>

\* a setup hook that launches again when the launch produced no handle
SetupReturnRetries ==
    /\ pcSetup = "unlock"
    /\ MutexUnlock("setup")
    /\ pcSetup' = IF slot = {} THEN "launch" ELSE "returned"
    /\ UNCHANGED << envVars, pcExit, search_paths, binary_path, backend, slot,
                    procs, attempted, calls >>

\* the guard is dropped at the end of the statement and the hook returns Ok(())
SetupReturn ==
    /\ pcSetup = "unlock"
    /\ MutexUnlock("setup")
    /\ pcSetup' = "returned"
    /\ UNCHANGED << envVars, pcExit, search_paths, binary_path, backend, slot,
                    procs, attempted, calls >>

\* ------------------------------------------------------ child processes

\* the child is still alive (a delivered kill has not yet ended it)
Alive(pid) == procs[pid].status \in {"running", "killed"}

\* a child terminates, on its own or because of a delivered kill signal, and
\* stays a zombie until it is waited for
ChildExit ==
    \E pid \in DOMAIN procs :
        /\ procs[pid].status \in {"running", "killed"}
        /\ procs' = [procs EXCEPT ![pid].status = "exited"]
        /\ UNCHANGED << envVars, pcSetup, pcExit, search_paths, binary_path,
                        backend, slot, lock, attempted, calls >>

\* Child::kill: Ok delivers the signal, Err (permission denied, process
\* already gone) leaves the process as it was
KillResults == {"ok", "err"}

StatusAfterKill(status, result) ==
    IF result = "ok" /\ status = "running" THEN "killed" ELSE status

\* a kill that is called again after it failed
KillErrorRetries(result) == IF result = "err" THEN "stop" ELSE "wait"

\* a kill whose error ends stop_backend (`child.kill()?`)
KillErrorReturns(result) == IF result = "err" THEN "unlock" ELSE "wait"

\* `let _ = child.kill();` discards the result: the wait comes next
AfterKill(result) == "wait"

\* a wait that does not block (Child::try_wait): it fails on a live child
WaitWithoutBlocking(status) ==
    IF status = "exited" THEN {"ok", "err"} ELSE {"err"}

\* Child::wait blocks until the process has terminated; then it reaps it
\* (Ok) or fails because the process can no longer be collected (Err). It
\* has no timeout and does not return while the child is alive.
WaitResults(status) ==
    IF status = "exited" THEN {"ok", "err"} ELSE {}

StatusAfterWait(status, result) ==
    IF result = "ok" THEN "reaped" ELSE status

\* ----------------------------------------------------------- exit handler

\* the host's event loop calls the run callback with RunEvent::Exit, once.
\* The setup hook runs to completion while the application starts; the
\* event loop that ends with RunEvent::Exit delivers events after it, so
\* the two routines never overlap. A setup hook that returned an error
\* stops the host before the event loop runs.
ExitEvent ==
    /\ pcSetup = "returned"
    /\ pcExit = "running"
    /\ pcExit' = "lock"
    /\ UNCHANGED << envVars, pcSetup, search_paths, binary_path, backend, slot,
                    lock, procs, attempted, calls >>

\* `state.0.lock().unwrap()` in the run callback
ExitLock ==
    /\ pcExit = "lock"
    /\ MutexLock("exit")
    /\ pcExit' = "stop"
    /\ UNCHANGED << envVars, pcSetup, search_paths, binary_path, backend, slot,
                    procs, attempted, calls >>

\* stop_backend calling kill without a handle
StopBackendNoneKills ==
    /\ pcExit = "stop"
    /\ slot = {}
    /\ calls' = Append(calls, [call |-> "kill", child |-> 0, result |-> "err"])
    /\ pcExit' = "unlock"
    /\ UNCHANGED << envVars, pcSetup, search_paths, binary_path, backend, slot,
                    lock, procs, attempted >>

\* stop_backend: `if let Some(child) = process` does not match
StopBackendNone ==
    /\ pcExit = "stop"
    /\ slot = {}
    /\ pcExit' = "unlock"
    /\ UNCHANGED << envVars, pcSetup, search_paths, binary_path, backend, slot,
                    lock, procs, attempted, calls >>

\* stop_backend going straight to the wait, without the kill
StopBackendKillOmitted ==
    /\ pcExit = "stop"
    /\ slot # {}
    /\ pcExit' = "wait"
    /\ UNCHANGED << envVars, pcSetup, search_paths, binary_path, backend, slot,
                    lock, procs, attempted, calls >>

\* stop_backend: `let _ = child.kill();`
StopBackendKill ==
    /\ pcExit = "stop"
    /\ \E child \in slot, result \in KillResults :
        /\ procs' = [procs EXCEPT
                       ![child].status = StatusAfterKill(procs[child].status, result)]
        /\ calls' = Append(calls, [call |-> "kill", child |-> child, result |-> result])
        /\ pcExit' = AfterKill(result)
    /\ UNCHANGED << envVars, pcSetup, search_paths, binary_path, backend, slot,
                    lock, attempted >>

\* a wait that gives up on a child that is still alive
StopBackendWaitTimeout ==
    /\ pcExit = "wait"
    /\ \E child \in slot :
        /\ calls' = Append(calls, [call |-> "wait", child |-> child,
                                   result |-> IF Alive(child) THEN "timeout" ELSE "ok"])
        /\ procs' = [procs EXCEPT
                       ![child].status = IF Alive(child) THEN procs[child].status
                                         ELSE "reaped"]
    /\ pcExit' = "unlock"
    /\ UNCHANGED << envVars, pcSetup, search_paths, binary_path, backend, slot,
                    lock, attempted >>

\* stop_backend: `let _ = child.wait();`
StopBackendWait ==
    /\ pcExit = "wait"
    /\ \E child \in slot :
        \E result \in WaitResults(procs[child].status) :
            /\ procs' = [procs EXCEPT
                           ![child].status = StatusAfterWait(procs[child].status, result)]
            /\ calls' = Append(calls, [call |-> "wait", child |-> child,
                                       result |-> result])
    /\ pcExit' = "unlock"
    /\ UNCHANGED << envVars, pcSetup, search_paths, binary_path, backend, slot,
                    lock, attempted >>

\* the guard is dropped, the callback returns and the host tears down
ExitReturn ==
    /\ pcExit = "unlock"
    /\ MutexUnlock("exit")
    /\ pcExit' = "returned"
    /\ UNCHANGED << envVars, pcSetup, search_paths, binary_path, backend, slot,
                    procs, attempted, calls >>

\* ------------------------------------------------------ diagnostic listing

\* the depth beyond which list_dir_recursive returns at once
MaxDepth == 3

\* A listed tree: directories 1..dirs nested in one another (directory 1 is
\* the one the listing starts in), symbolic links <<d, t>> in directory d to
\* directory t, a regular file in every directory when file is set, and a
\* directory that cannot be opened when locked is not 0.
Trees ==
    { [dirs |-> n, links |-> l, file |-> f, locked |-> u] :
        n \in 1..MaxNest, l \in SubsetsUpTo((1..MaxNest) \X (1..MaxNest), MaxLinks),
        f \in BOOLEAN, u \in 0..MaxNest }

\* the links and the locked directory of a tree lie inside it
WellFormed(t) ==
    /\ \A l \in t.links : l[1] <= t.dirs /\ l[2] <= t.dirs
    /\ t.locked <= t.dirs

\* the link entries to the directories of set targets, in ascending order
RECURSIVE LinkEntries(_)
LinkEntries(targets) ==
    IF targets = {} THEN << >>
    ELSE LET least == CHOOSE x \in targets : \A y \in targets : x <= y
         IN  << [kind |-> "link", target |-> least] >>
             \o LinkEntries(targets \ {least})

\* std::fs::read_dir(dir): the entries of directory d, in the order the
\* filesystem keeps them
Entries(t, d) ==
    (IF d < t.dirs THEN << [kind |-> "dir", target |-> d + 1] >> ELSE << >>)
    \o LinkEntries({ l[2] : l \in { x \in t.links : x[1] = d } })
    \o (IF t.file THEN << [kind |-> "file", target |-> 0] >> ELSE << >>)

\* Path::is_dir follows symbolic links
is_dir(entry) == entry.kind \in {"dir", "link"}

\* `if depth > 3` with the next depth in place of the current one
DepthCheckedLate(depth) == depth > MaxDepth + 1

\* `if depth > 3`
DepthExceeded(depth) == depth > MaxDepth

\* an activation of list_dir_recursive(dir, depth) that has just been called
Activation(dir, depth) ==
    [dir |-> dir, depth |-> depth, phase |-> "enter", todo |-> << >>]

Top == stack[Len(stack)]

Pop == SubSeq(stack, 1, Len(stack) - 1)

\* `if depth > 3 { return; }`
ListDepthReturn ==
    /\ stack # << >>
    /\ Top.phase = "enter"
    /\ DepthExceeded(Top.depth)
    /\ stack' = Pop
    /\ UNCHANGED << supervisorVars, tree, reads >>

\* `if let Ok(entries) = std::fs::read_dir(dir)`: the directory is read
ListReadDir ==
    /\ stack # << >>
    /\ Top.phase = "enter"
    /\ ~DepthExceeded(Top.depth)
    /\ Top.dir # tree.locked
    /\ reads' = reads \cup {[dir |-> Top.dir, depth |-> Top.depth]}
    /\ stack' = [stack EXCEPT ![Len(stack)] =
                    [@ EXCEPT !.phase = "loop", !.todo = Entries(tree, Top.dir)]]
    /\ UNCHANGED << supervisorVars, tree >>

\* read_dir fails (the directory cannot be opened) and the activation returns
ListReadDirErr ==
    /\ stack # << >>
    /\ Top.phase = "enter"
    /\ ~DepthExceeded(Top.depth)
    /\ Top.dir = tree.locked
    /\ reads' = reads \cup {[dir |-> Top.dir, depth |-> Top.depth]}
    /\ stack' = Pop
    /\ UNCHANGED << supervisorVars, tree >>

\* `for entry in entries.flatten()`: an entry that is not a directory is
\* logged
ListEntryFile ==
    /\ stack # << >>
    /\ Top.phase = "loop"
    /\ Top.todo # << >>
    /\ ~is_dir(Head(Top.todo))
    /\ stack' = [stack EXCEPT ![Len(stack)].todo = Tail(@)]
    /\ UNCHANGED << supervisorVars, tree, reads >>

\* an entry that is a directory is logged and listed one level deeper
ListEntryDir ==
    /\ stack # << >>
    /\ Top.phase = "loop"
    /\ Top.todo # << >>
    /\ is_dir(Head(Top.todo))
    /\ stack' = Append([stack EXCEPT ![Len(stack)].todo = Tail(@)],
                       Activation(Head(Top.todo).target, Top.depth + 1))
    /\ UNCHANGED << supervisorVars, tree, reads >>

\* the loop is over and the activation returns
ListReturn ==
    /\ stack # << >>
    /\ Top.phase = "loop"
    /\ Top.todo = << >>
    /\ stack' = Pop
    /\ UNCHANGED << supervisorVars, tree, reads >>

\* list_dir_recursive
list_dir_recursive ==
    \/ ListDepthReturn
    \/ ListReadDir
    \/ ListReadDirErr
    \/ ListEntryFile
    \/ ListEntryDir
    \/ ListReturn

\* find_backend_binary has found nothing and calls
\* list_dir_recursive(&resource_dir, 0) on some directory tree
InitList ==
    /\ target_windows = FALSE
    /\ resource_dir = {<<"opt", "nexa", "resources">>}
    /\ exe_path = {}
    /\ app_data = {}
    /\ files = {}
    /\ pcSetup = "locate"
    /\ pcExit = "running"
    /\ search_paths = SearchPaths(resource_dir, exe_path, app_data, target_windows)
    /\ binary_path = {}
    /\ backend = {}
    /\ slot = {}
    /\ lock = "none"
    /\ procs = << >>
    /\ attempted = {}
    /\ calls = << >>
    /\ tree \in { t \in Trees : WellFormed(t) }
    /\ stack = << Activation(1, 0) >>
    /\ reads = {}

\* ---------------------------------------------------------- specification

\* the steps of the supervisor; the diagnostic listing that
\* find_backend_binary makes on a miss only logs, and is followed step by
\* step under SpecList
Next ==
    \/ SetupPluginErr /\ UNCHANGED listVars
    \/ SetupPluginOk /\ UNCHANGED listVars
    \/ SetupLocate /\ UNCHANGED listVars
    \/ SetupLaunchBundled /\ UNCHANGED listVars
    \/ SetupLaunchDev /\ UNCHANGED listVars
    \/ SetupLock /\ UNCHANGED listVars
    \/ SetupStore /\ UNCHANGED listVars
    \/ SetupReturn /\ UNCHANGED listVars
    \/ ChildExit /\ UNCHANGED listVars
    \/ ExitEvent /\ UNCHANGED listVars
    \/ ExitLock /\ UNCHANGED listVars
    \/ StopBackendNone /\ UNCHANGED listVars
    \/ StopBackendKill /\ UNCHANGED listVars
    \/ StopBackendWait /\ UNCHANGED listVars
    \/ ExitReturn /\ UNCHANGED listVars

Spec == Init /\ [][Next]_vars

\* a step of the run callback's RunEvent::Exit branch
ExitHandlerStep ==
    /\ \/ ExitLock
       \/ StopBackendNone
       \/ StopBackendKill
       \/ StopBackendWait
       \/ ExitReturn
    /\ UNCHANGED listVars

\* the supervisor with a thread that keeps running the exit handler once
\* the host has delivered RunEvent::Exit; nothing makes the child exit
SpecLive == Init /\ [][Next]_vars /\ WF_vars(ExitHandlerStep)

\* the diagnostic listing alone; the thread that runs it keeps running
SpecList == InitList /\ [][list_dir_recursive]_vars /\ WF_vars(list_dir_recursive)

\* ----------------------------------------------------------------- claims

\* find_backend_binary has returned in the setup hook
Located == pcSetup \in {"launch", "lock", "store", "unlock", "returned"}

\* the launch branch of the setup hook has been taken
Launched == pcSetup \in {"lock", "store", "unlock", "returned"}

\* the setup hook has executed `*guard = backend`
Stored == pcSetup \in {"unlock", "returned"}

\* the run callback has returned from RunEvent::Exit: the host tears down
HostExited == pcExit = "returned"

\* C1: the locator returns the candidate of smallest index that exists, and
\* None exactly when no candidate exists; the result is always an existing
\* element of the candidate list.
C1_FirstExistingCandidate ==
    Located =>
        /\ binary_path = {} <=>
               \A i \in 1..Len(search_paths) : ~Exists(files, search_paths[i])
        /\ \A p \in binary_path :
               \E i \in 1..Len(search_paths) :
                   /\ search_paths[i] = p
                   /\ Exists(files, p)
                   /\ \A j \in 1..(i - 1) : ~Exists(files, search_paths[j])

\* C1 witness: the locator returned a candidate that is not the first of the
\* list, while a later candidate of another path exists too.
C1_Witness ==
    /\ Located
    /\ \E i, k \in 1..Len(search_paths) :
           /\ 1 < i /\ i < k
           /\ binary_path = {search_paths[i]}
           /\ search_paths[k] # search_paths[i]
           /\ Exists(files, search_paths[k])

C3_LaunchModesExclusive ==
    /\ ~Launched => attempted = {}
    /\ Launched =>
        /\ "bundled" \in attempted <=> binary_path # {}
        /\ "dev" \in attempted <=> "bundled" \notin attempted
        /\ attempted # {"bundled", "dev"}

\* C3 witness: the bundled spawn failed and the setup hook returned having
\* attempted the bundled launch only.
C3_Witness ==
    /\ pcSetup = "returned"
    /\ binary_path # {}
    /\ backend = {}
    /\ attempted = {"bundled"}

\* C4: after the exit handler has completed the handle slot is empty,
\* whether or not a handle was stored before.
C4_SlotEmptyAfterShutdown == HostExited => slot = {}

\* C5: with a stored handle the exit handler calls kill, then wait, on the
\* stored child, and it has not returned while that child is still alive.
C5_KillThenWaitBeforeTeardown ==
    /\ \A k \in DOMAIN calls :
           calls[k].call = "wait" =>
               /\ k > 1
               /\ calls[k - 1].call = "kill"
               /\ calls[k - 1].child = calls[k].child
    /\ HostExited =>
           \A child \in slot :
               /\ ~Alive(child)
               /\ Len(calls) = 2
               /\ calls[1].call = "kill" /\ calls[1].child = child
               /\ calls[2].call = "wait" /\ calls[2].child = child

\* C5 witness: the exit handler has returned after killing a running child
\* and reaping it.
C5_Witness ==
    /\ HostExited
    /\ slot = {1}
    /\ calls[1].result = "ok"
    /\ calls[2].result = "ok"
    /\ procs[1].status = "reaped"

\* C6: the slot holds at most one handle and at most one child is ever
\* spawned; once the setup hook has stored its result the slot holds the
\* handle of the spawned child, and no handle when the launch failed.
C6_AtMostOneHandle ==
    /\ Cardinality(slot) <= 1
    /\ Len(procs) <= 1
    /\ slot \subseteq DOMAIN procs
    /\ Stored => slot = DOMAIN procs

\* C6 witness: the setup hook has stored the handle of the child it spawned.
C6_Witness ==
    /\ Stored
    /\ Len(procs) = 1
    /\ slot = {1}

C8_ShutdownWithoutHandleNoOp ==
    /\ (pcExit = "stop" /\ slot = {}) => ENABLED StopBackendNone
    /\ (pcExit \in {"unlock", "returned"} /\ procs = << >>) =>
           /\ calls = << >>
           /\ slot = {}
    /\ (pcExit = "unlock" /\ procs = << >>) => ENABLED ExitReturn

\* C8 witness: the exit handler has returned in a session whose launch
\* produced no handle.
C8_Witness ==
    /\ HostExited
    /\ attempted # {}
    /\ procs = << >>
    /\ slot = {}

\* C9: only the plugin registration, before any launch, can fail the setup
\* hook; after a launch that produced no handle the hook is never blocked
\* and returns with the slot empty.
C9_LaunchFailureNotFatal ==
    /\ pcSetup = "failed" => attempted = {} /\ procs = << >>
    /\ (Launched /\ pcSetup # "returned" /\ procs = << >>) =>
           ENABLED (SetupLock \/ SetupStore \/ SetupReturn)
    /\ (pcSetup = "returned" /\ procs = << >>) => slot = {}

\* C9 witness: the locator found nothing, the dev fallback produced no
\* handle, and the setup hook returned; the host runs without a backend.
C9_Witness ==
    /\ pcSetup = "returned"
    /\ pcExit = "running"
    /\ attempted = {"dev"}
    /\ procs = << >>
    /\ slot = {}

\* C10: whatever kill and wait return, the exit handler calls kill once and
\* then wait once and returns; a failed kill does not skip the wait.
C10_TerminateFailureSwallowed ==
    /\ Len(calls) <= 2
    /\ pcExit = "wait" => Len(calls) = 1 /\ calls[1].call = "kill"
    /\ (pcExit \in {"unlock", "returned"} /\ slot # {}) =>
           /\ Len(calls) = 2
           /\ calls[1].call = "kill"
           /\ calls[2].call = "wait"
    /\ (pcExit = "wait" /\ \A child \in slot : ~Alive(child)) =>
           ENABLED StopBackendWait
    /\ pcExit = "unlock" => ENABLED ExitReturn

\* C10 witness: kill failed, wait failed, and the exit handler has returned.
C10_Witness ==
    /\ HostExited
    /\ Len(calls) = 2
    /\ calls[1].result = "err"
    /\ calls[2].result = "err"

\* the state of the session in the supervisor's state machine
SessionState ==
    IF pcExit = "returned" THEN "Terminated"
    ELSE IF slot # {} THEN "Running"
    ELSE "NoProcess"

\* C11: a session makes at most one launch attempt, during the setup hook
\* and before the exit event; the launch step is never re-entered, a child
\* that exited is not replaced, and the session never goes from Running or
\* Terminated back to NoProcess.
C11_SingleShot ==
    /\ [](Cardinality(attempted) <= 1 /\ Len(procs) <= 1)
    /\ [][/\ (attempted' # attempted \/ Len(procs') # Len(procs)) =>
                 /\ attempted = {} /\ procs = << >>
                 /\ pcSetup = "launch" /\ pcSetup' = "lock"
                 /\ pcExit = "running"
          /\ pcSetup' = "launch" => pcSetup \in {"locate", "launch"}
          /\ SessionState # "NoProcess" => SessionState' # "NoProcess"
          /\ SessionState = "Terminated" => SessionState' = "Terminated"]_vars

\* C11 witness: the backend exited on its own while the host runs, and no
\* second child exists.
C11_Witness ==
    /\ pcSetup = "returned"
    /\ pcExit = "running"
    /\ Len(procs) = 1
    /\ procs[1].status = "exited"
    /\ slot = {1}

\* the kill (or wait) calls made on child pid so far
CallsOn(what, pid) ==
    { k \in DOMAIN calls : calls[k].call = what /\ calls[k].child = pid }

\* C12: kill and wait are called on a spawned child at most once each, never
\* before the exit handler runs, and exactly once each by the time the
\* exit handler has returned.
C12_DestroyedOnceOnExit ==
    /\ \A pid \in DOMAIN procs :
           /\ Cardinality(CallsOn("kill", pid)) <= 1
           /\ Cardinality(CallsOn("wait", pid)) <= 1
    /\ pcExit \in {"running", "lock", "stop"} => calls = << >>
    /\ HostExited =>
           \A pid \in DOMAIN procs :
               /\ Cardinality(CallsOn("kill", pid)) = 1
               /\ Cardinality(CallsOn("wait", pid)) = 1

\* C12 witness: the child had exited on its own, the kill failed, the wait
\* reaped it, and the exit handler has returned.
C12_Witness ==
    /\ HostExited
    /\ Len(calls) = 2
    /\ calls[1].result = "err"
    /\ calls[2].result = "ok"
    /\ procs[1].status = "reaped"

\* C13: list_dir_recursive terminates on every directory tree, and reads no
\* directory at a depth greater than 3 from the directory it starts in.
C13_ListingBoundedAndTerminates ==
    /\ <>(stack = << >>)
    /\ [](\A r \in reads : r.depth <= 3)
    /\ [](Len(stack) <= 5)

\* C13 witness: on a tree with a symbolic link back to the start directory
\* the listing has ended, having read that directory at depth 3.
C13_Witness ==
    /\ stack = << >>
    /\ <<1, 1>> \in tree.links
    /\ [dir |-> 1, depth |-> 3] \in reads

\* the anchor directories that are available
Anchors == resource_dir \cup ParentOpt(exe_path) \cup app_data

\* the three layouts of the binary under directory d
NestedLayout(d) ==
    d \o <<"binaries", "nexa-backend", BinaryName(target_windows)>>

FlattenedLayout(d) == d \o <<"nexa-backend", BinaryName(target_windows)>>

BareLayout(d) == d \o <<BinaryName(target_windows)>>

\* C14: with no anchor directory available the candidate list is empty and
\* the locator reports not-found; an unavailable anchor contributes no
\* candidates and every available anchor's candidates are still evaluated.
C14_UnavailableAnchorsSkipped ==
    Located =>
        /\ Anchors = {} => search_paths = << >> /\ binary_path = {}
        /\ Len(search_paths) <= 3 * Cardinality(resource_dir)
                                + 9 * Cardinality(ParentOpt(exe_path))
                                + 2 * Cardinality(app_data)
        /\ \A i \in 1..Len(search_paths) :
               \E d \in Anchors \cup ParentOpt(ParentOpt(exe_path)) :
                   IsPrefix(d, search_paths[i])
        /\ \A d \in Anchors :
               /\ \E i \in 1..Len(search_paths) : search_paths[i] = NestedLayout(d)
               /\ Exists(files, NestedLayout(d)) => binary_path # {}

\* C14 witness: no anchor directory is available, the candidate list is
\* empty, and the locator has reported not-found although files exist.
C14_Witness ==
    /\ Located
    /\ Anchors = {}
    /\ search_paths = << >>
    /\ binary_path = {}
    /\ files # {}

\* C15: for every available anchor the candidate list holds the nested, the
\* flattened and the bare layout under it, in this order, and a binary at
\* any of the three is found.
C15_ThreeLayoutsPerAnchor ==
    Located =>
        \A d \in Anchors :
            /\ \E i, j, k \in 1..Len(search_paths) :
                   /\ i < j /\ j < k
                   /\ search_paths[i] = NestedLayout(d)
                   /\ search_paths[j] = FlattenedLayout(d)
                   /\ search_paths[k] = BareLayout(d)
            /\ (\/ Exists(files, NestedLayout(d))
                \/ Exists(files, FlattenedLayout(d))
                \/ Exists(files, BareLayout(d))) => binary_path # {}

\* the candidates of the resource directory, and those of the executable's
\* directory with its probes
ResourceSet ==
    Range(OfAnchor(resource_dir, ResourceCandidates, BinaryName(target_windows)))

ExeSet ==
    Range(OfAnchor(ParentOpt(exe_path), ExeDirCandidates, BinaryName(target_windows)))

AppDataSet ==
    Range(OfAnchor(app_data, AppDataCandidates, BinaryName(target_windows)))

\* C16: a path that is not a candidate of the resource directory is returned
\* only when no candidate of the resource directory exists, and a path that
\* is a candidate of the app-local-data directory alone only when no
\* candidate of the resource directory or of the executable's directory
\* exists.
C16_AnchorPriority ==
    Located =>
        \A p \in binary_path :
            /\ p \in ResourceSet \cup ExeSet \cup AppDataSet
            /\ p \notin ResourceSet =>
                   \A r \in ResourceSet : ~Exists(files, r)
            /\ p \notin ResourceSet \cup ExeSet =>
                   \A r \in ResourceSet \cup ExeSet : ~Exists(files, r)

\* C16 witness: the resource directory and the executable's directory are
\* available and hold no binary; the locator returned a candidate of the
\* app-local-data directory.
C16_Witness ==
    /\ Located
    /\ resource_dir # {}
    /\ exe_path # {}
    /\ binary_path # {}
    /\ binary_path \subseteq AppDataSet
    /\ files \ binary_path # {}

\* the directory four levels above the executable's directory, when the
\* executable path is known and that deep
FourAboveExeDir ==
    { SubSeq(exe, 1, Len(exe) - 5) : exe \in { e \in exe_path : Len(e) >= 5 } }

\* the interpreter of the virtual environment under directory backend_dir
InterpreterUnder(backend_dir) ==
    IF target_windows THEN backend_dir \o <<".venv", "Scripts", "python.exe">>
    ELSE backend_dir \o <<".venv", "bin", "python">>

\* the project roots under which the backend directory and the interpreter
\* exist
DevRoots ==
    { root \in FourAboveExeDir :
        /\ Exists(files, root \o <<"backend">>)
        /\ Exists(files, InterpreterUnder(root \o <<"backend">>)) }

\* the command the dev fallback is to run for project root root
DevProcess(root) ==
    [ cmd    |-> [ mode    |-> "dev",
                   program |-> InterpreterUnder(root \o <<"backend">>),
                   args    |-> <<"-m", "uvicorn", "main:app", "--host",
                                 "127.0.0.1", "--port", "8000">>,
                   env     |-> {},
                   flags   |-> {},
                   cwd     |-> root \o <<"backend">> ],
      status |-> "running" ]

\* C17: the dev fallback spawns nothing and produces no handle when the
\* parent walk runs out or the backend directory or the interpreter does not
\* exist, and the setup hook goes on without another launch; otherwise the
\* only process it can spawn is the interpreter under backend/.venv four
\* levels above the executable's directory, with the uvicorn arguments for
\* 127.0.0.1 port 8000 and the backend directory as working directory, and
\* this spawn is possible whenever the interpreter is a file.
C17_DevFallbackSpawnsInterpreterOrNothing ==
    /\ [][(pcSetup = "launch" /\ binary_path = {} /\ pcSetup' # "launch") =>
              /\ pcSetup' = "lock"
              /\ attempted' = {"dev"}
              /\ IF DevRoots = {}
                 THEN procs' = procs /\ backend' = {}
                 ELSE \/ procs' = procs /\ backend' = {}
                      \/ \E root \in DevRoots :
                             /\ procs' = Append(procs, DevProcess(root))
                             /\ backend' = {Len(procs')}]_vars
    /\ []((/\ pcSetup = "launch"
           /\ binary_path = {}
           /\ \E root \in DevRoots :
                  IsFile(files, InterpreterUnder(root \o <<"backend">>)))
          => ENABLED (SetupLaunchDev /\ Len(procs') = 1))

\* C17 witness: the locator reported not-found and the dev fallback has
\* spawned the interpreter of the project four levels above the
\* executable's directory.
C17_Witness ==
    /\ pcSetup = "lock"
    /\ binary_path = {}
    /\ DevRoots # {}
    /\ backend = {1}
    /\ Len(procs) = 1
    /\ procs[1].cmd.mode = "dev"
    /\ procs[1].cmd.program = <<"proj", "backend", ".venv", "bin", "python">>
    /\ procs[1].cmd.cwd = <<"proj", "backend">>

\* the exit handler is in Child::wait on a child that has not exited
BlockedInWait == pcExit = "wait" /\ \E child \in slot : Alive(child)

\* C18: after the exit event the exit handler returns, unless from some
\* point on it is in the wait on a child that never exits; the wait has no
\* timeout, so while the child is alive the handler stays in it and the
\* host has not exited.
C18_ExitReturnsIfChildExits ==
    /\ [](pcExit = "lock" => (<>HostExited \/ <>[]BlockedInWait))
    /\ [][BlockedInWait => pcExit' = "wait"]_vars
    /\ [](BlockedInWait => ~HostExited /\ ~ENABLED StopBackendWait)

\* C18 witness: the kill was delivered and the exit handler waits for the
\* child, which has not exited yet.
C18_Witness ==
    /\ pcExit = "wait"
    /\ slot = {1}
    /\ procs[1].status = "killed"
    /\ Len(calls) = 1
    /\ calls[1] = [call |-> "kill", child |-> 1, result |-> "ok"]

====
